---- MODULE Spec2Model ----
(***************************************************************************)
(* Sprite-font builder of Dviglo: the three FreeType build constructors   *)
(* (Simple, Contour, Outlined), the multi-page glyph packer, and the      *)
(* save / load pair of SpriteFont.                                        *)
(*                                                                         *)
(* Images are modelled by their size (the pixel contents do not decide     *)
(* where a glyph is placed); a page is modelled by the list of paste       *)
(* operations done on it.  The build is NDEBUG: GlyphPacker::pack names    *)
(* an undeclared identifier inside assert(), so only builds in which       *)
(* assert() expands to nothing compile.                                    *)
(***************************************************************************)
EXTENDS Integers, Sequences, FiniteSets, TLC

----------------------------------------------------------------------------
(* Bounds of the model *)

\* Largest number of code points the font's charmap enumerates.
MaxGlyphs == 3
\* Pages after which a packing loop that never ends is no longer followed.
MaxPages == 4
\* Error lines after which a glyph loop that never ends is no longer followed.
MaxLog == 2

(* Program constants *)

\* GlyphPacker::padding, and the local padding of the Outlined constructor.
padding == 2

----------------------------------------------------------------------------
(* Inputs *)

Kinds == {"Simple", "Contour", "Outlined"}

\* settings.texture_size
PageSizes == {<<11, 9>>, <<5, 9>>}

\* settings.blur_radius / settings.outline_blur_radius
BlurRadii == {0, 1}

\* settings.thickness / settings.outline_thickness, in tenths of a pixel
\* (1.2f is the header's default, 2.0 the value of the spec's scenario).
Thicknesses == {12, 20}

\* What the font engine leaves in the glyph slot: the size of the rendered
\* bitmap (0 x 0 is a blank glyph) and the glyph's metrics, 26.6 fixed point.
Slots ==
    { [bitmap |-> <<0, 0>>, horiBearingX |-> 0,   horiBearingY |-> 0,    horiAdvance |-> 352],
      [bitmap |-> <<1, 1>>, horiBearingX |-> 70,  horiBearingY |-> 1000, horiAdvance |-> 736],
      [bitmap |-> <<2, 1>>, horiBearingX |-> -40, horiBearingY |-> -96,  horiAdvance |-> 480] }

\* face->size->metrics of the opened face, 26.6 fixed point.
SizeMetrics ==
    { [height |-> 1504, ascender |-> 1216],
      [height |-> 1290, ascender |-> 1000] }

\* The outcomes of the steps of FreeTypeFace's constructor.
FaceErrors == {"none", "data_empty", "new_face", "charmap", "pixel_size"}

\* The code point the charmap enumerates k-th (FT_Get_First_Char /
\* FT_Get_Next_Char return them in increasing order).
CharCode(k) == 7 * k * k + 2

\* Paths given to save and to the loading constructor: a stem and an
\* extension ("" when the path has none).
Stems == {"out", "copy"}

Exts == {"", "fnt", "png"}

Paths == [stem : Stems, ext : Exts]

Settings ==
    { s \in [kind : Kinds, texture_size : PageSizes,
             blur_radius : BlurRadii, thickness : Thicknesses] :
        s.kind = "Simple" => s.thickness = 12 }

----------------------------------------------------------------------------
(* Small helpers *)

Max(a, b) == IF a >= b THEN a ELSE b

\* C++ conversion of a quotient to an integer: toward zero.
TruncDiv(a, b) == IF a >= 0 THEN a \div b ELSE -((-a) \div b)

Range(s) == { s[i] : i \in DOMAIN s }

NullImage == <<-1, -1>>

IntRectZero == [pos |-> <<0, 0>>, size |-> <<0, 0>>]

\* A default-constructed RenderedGlyph.
RenderedGlyphDefault ==
    [image |-> NullImage, code_point |-> 0, offset |-> <<0, 0>>,
     advance_x |-> 0, page |-> 0, rect |-> IntRectZero]

\* A default-constructed SpriteFont (the member initialisers of the class).
SpriteFontDefault ==
    [face_ |-> "", size_ |-> 0, line_height_ |-> 0,
     textures_ |-> <<>>, glyphs_ |-> <<>>]

----------------------------------------------------------------------------
(* round_to_pixels *)

\* FT_PIX_FLOOR(value) >> 6, then one more when the low six bits are >= 32.
\* On two's complement, value & ~63 is value - (value mod 64) and value & 63
\* is value mod 64, the remainder being non-negative.
\* Variant: the low six bits must exceed 32 for the result to go up.
round_half_down(value) ==
    LET floor == value - (value % 64)
        frac_part == value % 64
    IN  IF frac_part > 32 THEN (floor \div 64) + 1 ELSE floor \div 64

round_to_pixels(value) ==
    LET floor == value - (value % 64)
        ret == floor \div 64
        frac_part == value % 64
    IN  IF frac_part >= 32 THEN ret + 1 ELSE ret

----------------------------------------------------------------------------
(* stb_rect_pack (the library behind stbrp_init_target / stbrp_pack_rects). *)
(* The skyline is the list of its active nodes, left to right, closed by   *)
(* the sentinel node at x = width.  With num_nodes = width the alignment   *)
(* is 1 and the pool of free nodes is never exhausted.                     *)

\* stbrp_init_target: one node covering the whole width at height 0.
stbrp_init_target(width) ==
    << [x |-> 0, y |-> 0], [x |-> width, y |-> 65535] >>

\* stbrp__skyline_find_min_y: the highest node among those that start
\* left of x1, from node `first` on.
RECURSIVE stbrp__skyline_find_min_y(_, _, _)
stbrp__skyline_find_min_y(sky, first, x1) ==
    IF first > Len(sky) \/ sky[first].x >= x1 THEN 0
    ELSE Max(sky[first].y, stbrp__skyline_find_min_y(sky, first + 1, x1))

\* stbrp__skyline_find_best_pos, bottom-left heuristic: the first node
\* with the lowest resting height among the nodes the width fits from.
\* 0 when there is none.
stbrp__skyline_find_best_pos(sky, width, W) ==
    LET cand == { i \in 1..Len(sky) : sky[i].x + width <= W }
        yAt(i) == stbrp__skyline_find_min_y(sky, i, sky[i].x + width)
    IN  IF cand = {} THEN 0
        ELSE CHOOSE i \in cand :
                 \A j \in cand : yAt(i) < yAt(j) \/ (yAt(i) = yAt(j) /\ i <= j)

\* The node list after a rectangle of the given width was put on node
\* `best` with its top at `top`: the new node takes the place of `best`,
\* the nodes it covers are freed, the first one sticking out is cut.
RECURSIVE SkylineLastCovered(_, _, _)
SkylineLastCovered(sky, j, x1) ==
    IF j < Len(sky) /\ sky[j + 1].x <= x1
    THEN SkylineLastCovered(sky, j + 1, x1) ELSE j

SkylineInsert(sky, best, width, top) ==
    LET x0 == sky[best].x
        x1 == x0 + width
        j == SkylineLastCovered(sky, best, x1)
        cur == [sky[j] EXCEPT !.x = Max(sky[j].x, x1)]
    IN  SubSeq(sky, 1, best - 1) \o << [x |-> x0, y |-> top] >> \o << cur >>
            \o SubSeq(sky, j + 1, Len(sky))

\* stbrp__skyline_pack_rectangle: where the rectangle goes, or no place.
stbrp__skyline_pack_rectangle(sky, width, height, W, H) ==
    LET best == IF width > W \/ height > H THEN 0
                ELSE stbrp__skyline_find_best_pos(sky, width, W)
        y == IF best = 0 THEN 0
             ELSE stbrp__skyline_find_min_y(sky, best, sky[best].x + width)
    IN  IF best = 0 \/ y + height > H
        THEN [ok |-> FALSE, x |-> 0, y |-> 0, sky |-> sky]
        ELSE [ok |-> TRUE, x |-> sky[best].x, y |-> y,
              sky |-> SkylineInsert(sky, best, width, y + height)]

\* rect_height_compare: taller first, then wider first; qsort leaves the
\* order of equal rectangles open.
SortOrders(rects) ==
    LET n == Len(rects)
        before(a, b) == \/ rects[a].h > rects[b].h
                        \/ (rects[a].h = rects[b].h /\ rects[a].w > rects[b].w)
    IN  { o \in [1..n -> 1..n] :
            /\ \A i, j \in 1..n : i # j => o[i] # o[j]
            /\ \A i, j \in 1..n : i < j => ~before(o[j], o[i]) }

\* stbrp_pack_rects: the rectangles are tried in sorted order `order`; every
\* rectangle gets x, y and was_packed, in its original slot.
RECURSIVE PackInOrder(_, _, _, _, _, _)
PackInOrder(rects, order, k, sky, W, H) ==
    IF k > Len(order) THEN rects
    ELSE LET i == order[k]
             Packed(fr) == [rects EXCEPT ![i] =
                              [rects[i] EXCEPT !.x = fr.x, !.y = fr.y,
                                               !.was_packed = fr.ok]]
         IN  CHOOSE out \in
                 { PackInOrder(Packed(fr), order, k + 1, fr.sky, W, H) :
                     fr \in { stbrp__skyline_pack_rectangle(
                                  sky, rects[i].w, rects[i].h, W, H) } } : TRUE

stbrp_pack_rects(rects, order, W, H) ==
    PackInOrder(rects, order, 1, stbrp_init_target(W), W, H)

----------------------------------------------------------------------------
(* State *)

VARIABLES
    settings,          \* the SFSettings... object given to the constructor
    nChars,            \* number of code points of the font's charmap
    size_metrics,      \* face->size->metrics of the font
    pc,                \* where the constructor is
    face_,             \* FreeTypeFace::face_ : "null" or "open"
    face_err,          \* the step of FreeTypeFace's constructor that failed
    pos,               \* the enumeration: char_code = CharCode(pos)
    failed,            \* positions whose glyph the engine failed on
    load_errors,       \* FT_Load_Glyph error lines written to the log
    log,               \* which other error lines were written to the log
    rendered_glyphs_,  \* GlyphPacker::rendered_glyphs_ / rendered_glyphs
    rects_,            \* GlyphPacker::rects_ / rects
    pages,             \* ret / pages: per page, the pastes made on it
    font,              \* the SpriteFont under construction
    loaded,            \* the SpriteFont made by the loading constructor, if any
    path,              \* the path of the last call of save
    files,             \* index files on disk: path -> document, if written
    pngs,              \* page images on disk
    call,              \* a function called on its own: its name and arguments
    returned           \* what that call returned, once it has returned

buildVars == << settings, nChars, size_metrics, pc, face_, face_err, pos,
                failed, load_errors, log, rendered_glyphs_, rects_, pages,
                font >>

ioVars == << loaded, path, files, pngs >>

unitVars == << call, returned >>

vars == << buildVars, ioVars, unitVars >>

W == settings.texture_size[1]
H == settings.texture_size[2]

Init ==
    /\ settings \in Settings
    /\ nChars \in 0..MaxGlyphs
    /\ size_metrics \in SizeMetrics
    /\ pc = "start"
    /\ face_ = "null"
    /\ face_err = "none"
    /\ pos = 0
    /\ failed = {}
    /\ load_errors = 0
    /\ log = {}
    /\ rendered_glyphs_ = <<>>
    /\ rects_ = <<>>
    /\ pages = <<>>
    /\ font = SpriteFontDefault
    /\ loaded = <<>>
    /\ path = [stem |-> "out", ext |-> ""]
    /\ files = [p \in Paths |-> <<>>]
    /\ pngs = {}
    /\ call = <<>>
    /\ returned = <<>>

----------------------------------------------------------------------------
(* FreeTypeFace *)

\* FreeTypeFace::FreeTypeFace: every failing step logs, releases the face
\* with done() and returns; face_ stays null.
FreeTypeFace_ctor ==
    /\ pc = "start"
    /\ \E err \in FaceErrors :
         /\ face_err' = err
         /\ face_' = IF err = "none" THEN "open" ELSE "null"
         /\ log' = IF err = "none" THEN log ELSE log \cup {err}
    /\ pc' = "first_char"
    /\ UNCHANGED << call, returned, settings, nChars, size_metrics, pos, failed, load_errors,
                    rendered_glyphs_, rects_, pages, font, ioVars >>

\* FT_Get_First_Char, then face.get()->num_glyphs as the capacity hint.
FirstChar ==
    /\ pc = "first_char"
    /\ face_ = "open"
    /\ pos' = 1
    /\ pc' = "enumerate"
    /\ UNCHANGED << call, returned, settings, nChars, size_metrics, face_, face_err, failed,
                    load_errors, log, rendered_glyphs_, rects_, pages, font,
                    ioVars >>

\* The same lines when the face could not be set up: FT_Get_First_Char
\* tolerates the null face, face.get()->num_glyphs reads through it.
NullFaceDeref ==
    /\ pc = "first_char"
    /\ face_ = "null"
    /\ pc' = "crashed"
    /\ UNCHANGED << call, returned, settings, nChars, size_metrics, face_, face_err, pos,
                    failed, load_errors, log, rendered_glyphs_, rects_, pages,
                    font, ioVars >>

----------------------------------------------------------------------------
(* RenderedGlyph *)

\* RenderedGlyph(code_point, face): the glyph taken from the slot.
RenderedGlyphFromSlot(code_point, m) ==
    [RenderedGlyphDefault EXCEPT
        !.code_point = code_point,
        !.image = m.bitmap,
        !.offset = << round_to_pixels(m.horiBearingX),
                      round_to_pixels(size_metrics.ascender - m.horiBearingY) >>,
        !.advance_x = round_to_pixels(m.horiAdvance)]

\* Variant: the new image is larger by the radius, not by twice the radius.
blur_grown_by_radius(g, blur_radius) ==
    IF blur_radius = 0 THEN g
    ELSE [g EXCEPT
            !.image = << g.image[1] + blur_radius, g.image[2] + blur_radius >>,
            !.offset = << g.offset[1] - blur_radius, g.offset[2] - blur_radius >>]

\* RenderedGlyph::blur
blur(g, blur_radius) ==
    IF blur_radius = 0 THEN g
    ELSE [g EXCEPT
            !.image = << g.image[1] + blur_radius * 2, g.image[2] + blur_radius * 2 >>,
            !.offset = << g.offset[1] - blur_radius, g.offset[2] - blur_radius >>]

\* i32 += f32: the sum is formed in floating point and converted back.
AddThickness(n, thickness) == TruncDiv(n * 10 + thickness, 10)

\* i32(outline_thickness * 2)
TwiceThickness(thickness) == TruncDiv(thickness * 2, 10)

----------------------------------------------------------------------------
(* GlyphPacker *)

\* Variant: the rectangle is the bare image, without padding.
NewRectWithoutPadding(id, image) ==
    [id |-> id, w |-> image[1], h |-> image[2],
     x |-> 0, y |-> 0, was_packed |-> FALSE]

\* The stbrp_rect of GlyphPacker::add (and of the Outlined constructor).
NewRect(id, image) ==
    [id |-> id, w |-> image[1] + padding * 2, h |-> image[2] + padding * 2,
     x |-> 0, y |-> 0, was_packed |-> FALSE]

\* GlyphPacker::add
add(rendered_glyph) ==
    /\ rects_' = Append(rects_, NewRect(Len(rendered_glyphs_), rendered_glyph.image))
    /\ rendered_glyphs_' = Append(rendered_glyphs_, rendered_glyph)

----------------------------------------------------------------------------
(* The glyph loops of the three constructors *)

\* Loop body of SpriteFont(const SFSettingsSimple&).  A failing
\* FT_Load_Glyph logs and continues: char_code and glyph_index keep their
\* values, and the engine fails on the same glyph again.
SimpleGlyph ==
    /\ pc = "enumerate"
    /\ settings.kind = "Simple"
    /\ pos <= nChars
    /\ \E error \in BOOLEAN :
         /\ pos \in failed => error
         /\ IF error
            THEN /\ load_errors < MaxLog
                 /\ load_errors' = load_errors + 1
                 /\ failed' = failed \cup {pos}
                 /\ UNCHANGED << pos, rendered_glyphs_, rects_ >>
            ELSE \E m \in Slots :
                 /\ add(blur(RenderedGlyphFromSlot(CharCode(pos), m),
                             settings.blur_radius))
                 /\ pos' = pos + 1
                 /\ UNCHANGED << load_errors, failed >>
    /\ UNCHANGED << call, returned, settings, nChars, size_metrics, pc, face_, face_err, log,
                    pages, font, ioVars >>

\* render_glyph_contour on success: the stroked glyph's bitmap, the slot's
\* metrics, the advance widened by the thickness, then the blur.
render_glyph_contour(m) ==
    LET ret == RenderedGlyphFromSlot(0, m)
    IN  blur([ret EXCEPT !.advance_x = AddThickness(ret.advance_x, settings.thickness)],
             settings.blur_radius)

\* Loop body of SpriteFont(const SFSettingsContour&).  The result of
\* FT_Load_Glyph is not looked at; when FT_Get_Glyph or FT_Glyph_To_Bitmap
\* fails, render_glyph_contour logs and returns a glyph without image, and
\* GlyphPacker::add reads the size of that image through the null pointer.
ContourGlyph ==
    /\ pc = "enumerate"
    /\ settings.kind = "Contour"
    /\ pos <= nChars
    /\ \E error \in {"none", "FT_Get_Glyph", "FT_Glyph_To_Bitmap"} :
         IF error # "none"
         THEN /\ log' = log \cup {error}
              /\ failed' = failed \cup {pos}
              /\ pc' = "crashed"
              /\ UNCHANGED << pos, rendered_glyphs_, rects_ >>
         ELSE \E m \in Slots :
              /\ add([render_glyph_contour(m) EXCEPT !.code_point = CharCode(pos)])
              /\ pos' = pos + 1
              /\ UNCHANGED << log, failed, pc >>
    /\ UNCHANGED << call, returned, settings, nChars, size_metrics, face_, face_err,
                    load_errors, pages, font, ioVars >>

\* render_glyph_outlined: the inflated glyph's bitmap (blurred when asked
\* for), the slot's metrics, the advance widened by twice the thickness.
render_glyph_outlined(m) ==
    LET ret == RenderedGlyphFromSlot(0, m)
        inflated == m.bitmap
        r == settings.blur_radius
        wide == [ret EXCEPT !.advance_x = ret.advance_x + TwiceThickness(settings.thickness)]
    IN  IF r > 0
        THEN [wide EXCEPT !.image = << inflated[1] + r * 2, inflated[2] + r * 2 >>,
                          !.offset = << wide.offset[1] - r, wide.offset[2] - r >>]
        ELSE wide

\* Loop body of SpriteFont(const SFSettingsOutlined&).  No result of the
\* engine is looked at: after a failure the FT_Glyph handle is read
\* uninitialised, which either faults or yields some bitmap.
OutlinedGlyph ==
    /\ pc = "enumerate"
    /\ settings.kind = "Outlined"
    /\ pos <= nChars
    /\ \E error \in BOOLEAN, faults \in BOOLEAN :
         /\ faults => error
         /\ failed' = IF error THEN failed \cup {pos} ELSE failed
         /\ IF faults
            THEN /\ pc' = "crashed"
                 /\ UNCHANGED << pos, rendered_glyphs_, rects_ >>
            ELSE \E m \in Slots :
                 /\ add([render_glyph_outlined(m) EXCEPT !.code_point = CharCode(pos)])
                 /\ pos' = pos + 1
                 /\ UNCHANGED pc
    /\ UNCHANGED << call, returned, settings, nChars, size_metrics, face_, face_err,
                    load_errors, log, pages, font, ioVars >>

\* glyph_index == 0 ends the loop; pack is entered.
EnumerateDone ==
    /\ pc = "enumerate"
    /\ pos > nChars
    /\ pc' = "pack"
    /\ UNCHANGED << call, returned, settings, nChars, size_metrics, face_, face_err, pos,
                    failed, load_errors, log, rendered_glyphs_, rects_, pages,
                    font, ioVars >>

----------------------------------------------------------------------------
(* The packing loop *)

\* Variant: the image is pasted at the packer's position itself.
PastePosWithoutPadding(rect) == << rect.x, rect.y >>

\* Where the glyph's image is pasted on the page.
PastePos(rect) == << rect.x + padding, rect.y + padding >>

\* rendered_glyphs_[rect.id].rect.pos
PlacedPos(rect) == << rect.x + padding, rect.y + padding >>

\* Variant: the padding is not taken off the reported size.
PlacedSizeWithPadding(rect) == << rect.w, rect.h >>

\* rendered_glyphs_[rect.id].rect.size
PlacedSize(rect) == << rect.w - padding * 2, rect.h - padding * 2 >>

\* Variant: the page is numbered after it was pushed.
PageNumberAfterPush(ps) == Len(ps) + 1

\* (i32)ret.size(): the number of the page being filled.
PageNumber(ps) == Len(ps)

\* Variant: the last rectangle is dropped without being moved into slot i.
PopBackOnly(rects, i) == SubSeq(rects, 1, Len(rects) - 1)

\* rect = std::move(rects_.back()); rects_.pop_back();
RemoveBySwap(rects, i) ==
    SubSeq([rects EXCEPT ![i] = rects[Len(rects)]], 1, Len(rects) - 1)

\* Variant: i advances past the slot the last rectangle was moved into.
AfterRemovalAdvance(i) == i + 1

\* The slot examined after the one at i held a packed rectangle.
AfterRemoval(i) == i

\* The for loop over rects_ of one round: every packed rectangle is pasted,
\* written back into its glyph and removed from the list.
RECURSIVE PlacePacked(_, _, _, _, _)
PlacePacked(i, rects, glyphs, page, page_no) ==
    IF i > Len(rects)
    THEN [rects |-> rects, glyphs |-> glyphs, page |-> page]
    ELSE IF rects[i].was_packed
    THEN LET rect == rects[i]
             g == glyphs[rect.id + 1]
             paste == [id |-> rect.id, at |-> << rect.x, rect.y >>,
                       pos |-> PastePos(rect), size |-> g.image]
             placed == [g EXCEPT !.page = page_no,
                                 !.rect = [pos |-> PlacedPos(rect),
                                           size |-> PlacedSize(rect)]]
         IN  PlacePacked(AfterRemoval(i), RemoveBySwap(rects, i),
                         [glyphs EXCEPT ![rect.id + 1] = placed],
                         Append(page, paste), page_no)
    ELSE PlacePacked(i + 1, rects, glyphs, page, page_no)

\* One round of the loop: a new page, stbrp_init_target, stbrp_pack_rects,
\* the for loop, ret.push_back(current_page).
Round ==
    /\ rects_ # <<>>
    /\ Len(pages) < MaxPages
    /\ \E order \in SortOrders(rects_) :
         \E packed \in { stbrp_pack_rects(rects_, order, W, H) } :
         \E r \in { PlacePacked(1, packed, rendered_glyphs_, <<>>,
                                PageNumber(pages)) } :
             /\ rects_' = r.rects
             /\ rendered_glyphs_' = r.glyphs
             /\ pages' = Append(pages, r.page)

\* while (rects_.size()) of GlyphPacker::pack
PackRound ==
    /\ pc = "pack"
    /\ settings.kind \in {"Simple", "Contour"}
    /\ Round
    /\ UNCHANGED << call, returned, settings, nChars, size_metrics, pc, face_, face_err, pos,
                    failed, load_errors, log, font, ioVars >>

\* while (rects.size()) of SpriteFont(const SFSettingsOutlined&)
PackRoundOutlined ==
    /\ pc = "pack"
    /\ settings.kind = "Outlined"
    /\ Round
    /\ UNCHANGED << call, returned, settings, nChars, size_metrics, pc, face_, face_err, pos,
                    failed, load_errors, log, font, ioVars >>

\* The loop ends when the working list is empty.
PackDone ==
    /\ pc = "pack"
    /\ rects_ = <<>>
    /\ pc' = "packed"
    /\ UNCHANGED << call, returned, settings, nChars, size_metrics, face_, face_err, pos,
                    failed, load_errors, log, rendered_glyphs_, rects_, pages,
                    font, ioVars >>

----------------------------------------------------------------------------
(* The rest of the constructors *)

\* Glyph glyph; glyph.page = ...; glyph.rect = ...; ...
ToGlyph(rendered_glyph) ==
    [rect |-> rendered_glyph.rect, offset |-> rendered_glyph.offset,
     advance_x |-> rendered_glyph.advance_x, page |-> rendered_glyph.page]

\* glyphs_[rendered_glyph.code_point] = glyph, in the order of the vector.
GlyphMap(rendered) ==
    [cp \in { rendered[i].code_point : i \in DOMAIN rendered } |->
        LET last == CHOOSE i \in DOMAIN rendered :
                        /\ rendered[i].code_point = cp
                        /\ \A j \in DOMAIN rendered :
                               rendered[j].code_point = cp => j <= i
        IN  ToGlyph(rendered[last])]

\* make_shared<Texture>(colored_page, true): a texture that holds its image.
NewTexture(page_no) == [image |-> TRUE, src |-> << "page", page_no >>]

\* Variant: the loop over the pages stops before the last one.
PageTexturesButLast(ps) == [i \in 1..(Len(ps) - 1) |-> NewTexture(i - 1)]

\* textures_.push_back(page_tex) for every page
PageTextures(ps) == [i \in 1..Len(ps) |-> NewTexture(i - 1)]

\* line_height_ of the three constructors
LineHeight(kind) ==
    LET base == round_to_pixels(size_metrics.height)
    IN  CASE kind = "Simple" -> base
          [] kind = "Contour" -> AddThickness(base, settings.thickness)
          [] kind = "Outlined" -> base + TwiceThickness(settings.thickness)

\* From the return of the packing loop to the end of the constructor.
Finish ==
    /\ pc = "packed"
    /\ font' = [font EXCEPT !.line_height_ = LineHeight(settings.kind),
                            !.glyphs_ = GlyphMap(rendered_glyphs_),
                            !.textures_ = PageTextures(pages)]
    /\ pc' = "built"
    /\ UNCHANGED << call, returned, settings, nChars, size_metrics, face_, face_err, pos,
                    failed, load_errors, log, rendered_glyphs_, rects_, pages,
                    ioVars >>

----------------------------------------------------------------------------
(* The index file: numbers are written in decimal and parsed back *)

DigitChars == << "0", "1", "2", "3", "4", "5", "6", "7", "8", "9" >>

RECURSIVE Digits(_)
Digits(n) ==
    IF n < 10 THEN << DigitChars[n + 1] >>
    ELSE Digits(n \div 10) \o << DigitChars[(n % 10) + 1] >>

\* xml_attribute = int / unsigned / size_t: the decimal text, "-" first
\* for a negative number.
FormatInt(n) == IF n < 0 THEN << "-" >> \o Digits(-n) ELSE Digits(n)

IsDigit(c) == \E d \in 1..10 : DigitChars[d] = c

DigitValue(c) == (CHOOSE d \in 1..10 : DigitChars[d] = c) - 1

\* The value of the leading digits of text, from position i on.
RECURSIVE ParseDigits(_, _, _)
ParseDigits(text, i, acc) ==
    IF i > Len(text) \/ ~IsDigit(text[i]) THEN acc
    ELSE ParseDigits(text, i + 1, acc * 10 + DigitValue(text[i]))

\* xml_attribute::as_int: an optional sign, then the leading digits; 0 when
\* the attribute is missing or holds no number.
as_int(text) ==
    IF text = <<>> THEN 0
    ELSE IF text[1] = "-" THEN -ParseDigits(text, 2, 0)
    ELSE IF text[1] = "+" THEN ParseDigits(text, 2, 0)
    ELSE ParseDigits(text, 1, 0)

\* xml_attribute::as_uint: a negative number is clamped to 0.
as_uint(text) == Max(as_int(text), 0)

\* std::stoi of the size attribute.
stoi(text) == as_int(text)

\* std::stoi throws std::invalid_argument when the text does not start
\* with a number.
stoi_throws(text) ==
    LET digits == IF text # <<>> /\ text[1] \in {"-", "+"}
                  THEN SubSeq(text, 2, Len(text)) ELSE text
    IN  digits = <<>> \/ ~IsDigit(digits[1])

\* file_name + "_" + to_string(i) + ".png"
PageFileName(file_name, i) == [stem |-> file_name, index |-> FormatInt(i)]

----------------------------------------------------------------------------
(* SpriteFont::save *)

\* The orders in which the unordered map may hand out its keys.
IterationOrders(keys) ==
    { o \in [1..Cardinality(keys) -> keys] :
        \A i, j \in DOMAIN o : i # j => o[i] # o[j] }

\* Variant: the keys are written in the order the map hands them out.
Unsorted(code_points) == code_points

\* std::sort(code_points.begin(), code_points.end())
sort(code_points) ==
    CHOOSE o \in IterationOrders(Range(code_points)) :
        \A i, j \in DOMAIN o : i < j => o[i] < o[j]

\* The char element of one glyph.
CharNode(code_point, glyph) ==
    [id |-> FormatInt(code_point),
     x |-> FormatInt(glyph.rect.pos[1]),
     y |-> FormatInt(glyph.rect.pos[2]),
     width |-> FormatInt(glyph.rect.size[1]),
     height |-> FormatInt(glyph.rect.size[2]),
     xoffset |-> FormatInt(glyph.offset[1]),
     yoffset |-> FormatInt(glyph.offset[2]),
     advance_x |-> FormatInt(glyph.advance_x),
     page |-> FormatInt(glyph.page)]

\* The document save builds; code_points is the key vector as copied from
\* the map.  A child element that may be missing is a list of at most one.
SaveDocument(sf, file_name, code_points) ==
    LET sorted == sort(code_points)
    IN  [root |-> "font",
         info |-> << [face |-> sf.face_, size |-> FormatInt(sf.size_)] >>,
         chars |-> << [count |-> FormatInt(Cardinality(DOMAIN sf.glyphs_)),
                       children |-> [i \in DOMAIN sorted |->
                                        CharNode(sorted[i], sf.glyphs_[sorted[i]])]] >>,
         common |-> << [lineHeight |-> FormatInt(sf.line_height_),
                        pages |-> FormatInt(Len(sf.textures_))] >>,
         pages |-> << [i \in 1..Len(sf.textures_) |->
                          [name |-> "page", id |-> FormatInt(i - 1),
                           file |-> PageFileName(file_name, i - 1)]] >>]

\* Variant: only the first texture is looked at.
FirstHasImage(textures) == textures = <<>> \/ textures[1].image

\* The check of the textures' images at the start of save.
AllHaveImage(textures) == \A i \in DOMAIN textures : textures[i].image

\* The check of the extension.
ExtAccepted(ext) == ~(ext # "" /\ ext # "fnt")

\* save of the sprite-font sf under stem.ext
save(sf, stem, ext) ==
    IF ~AllHaveImage(sf.textures_)
    THEN /\ log' = log \cup {<< "save", stem, ext, "!texture->image()" >>}
         /\ UNCHANGED << files, pngs >>
    ELSE IF ~ExtAccepted(ext)
    THEN /\ log' = log \cup {<< "save", stem, ext, "ext != fnt" >>}
         /\ UNCHANGED << files, pngs >>
    ELSE \E code_points \in IterationOrders(DOMAIN sf.glyphs_) :
         /\ pngs' = pngs \cup { PageFileName(stem, i - 1) : i \in 1..Len(sf.textures_) }
         /\ files' = [files EXCEPT ![[stem |-> stem, ext |-> ext]] =
                          << SaveDocument(sf, stem, code_points) >>]
         /\ UNCHANGED log

\* save called on the built sprite-font
SaveBuilt ==
    /\ pc = "built"
    /\ \E ext \in Exts :
         /\ path' = [stem |-> "out", ext |-> ext]
         /\ save(font, "out", ext)
    /\ pc' = "saved"
    /\ UNCHANGED << call, returned, settings, nChars, size_metrics, face_, face_err, pos,
                    failed, load_errors, rendered_glyphs_, rects_, pages, font,
                    loaded >>

\* save called on the loaded sprite-font
SaveLoaded ==
    /\ pc = "loaded"
    /\ \E ext \in Exts :
         /\ path' = [stem |-> "copy", ext |-> ext]
         /\ save(loaded[1], "copy", ext)
    /\ pc' = "resaved"
    /\ UNCHANGED << call, returned, settings, nChars, size_metrics, face_, face_err, pos,
                    failed, load_errors, rendered_glyphs_, rects_, pages, font,
                    loaded >>

----------------------------------------------------------------------------
(* SpriteFont::SpriteFont(const StrUtf8& file_path) *)

\* DV_TEXTURE_CACHE->get(path): the texture of that file; whether it keeps
\* a CPU-side image is up to the cache.
TextureCacheGet(file, image) == [image |-> image, src |-> file]

\* Variant: the offsets are read as unsigned numbers.
GlyphOfCharUnsigned(char_node) ==
    [rect |-> [pos |-> << as_int(char_node.x), as_int(char_node.y) >>,
               size |-> << as_int(char_node.width), as_int(char_node.height) >>],
     offset |-> << as_uint(char_node.xoffset), as_uint(char_node.yoffset) >>,
     advance_x |-> as_int(char_node.advance_x),
     page |-> as_int(char_node.page)]

\* The glyph of one char element.
GlyphOfChar(char_node) ==
    [rect |-> [pos |-> << as_int(char_node.x), as_int(char_node.y) >>,
               size |-> << as_int(char_node.width), as_int(char_node.height) >>],
     offset |-> << as_int(char_node.xoffset), as_int(char_node.yoffset) >>,
     advance_x |-> as_int(char_node.advance_x),
     page |-> as_int(char_node.page)]

\* Variant: an id that is in the map already is not written again.
GlyphsOfCharsFirstWins(children) ==
    [id \in { as_uint(children[i].id) : i \in DOMAIN children } |->
        LET first == CHOOSE i \in DOMAIN children :
                         /\ as_uint(children[i].id) = id
                         /\ \A j \in DOMAIN children :
                                as_uint(children[j].id) = id => i <= j
        IN  GlyphOfChar(children[first])]

\* glyphs_[id] = glyph for every child of chars, in document order.
GlyphsOfChars(children) ==
    [id \in { as_uint(children[i].id) : i \in DOMAIN children } |->
        LET last == CHOOSE i \in DOMAIN children :
                        /\ as_uint(children[i].id) = id
                        /\ \A j \in DOMAIN children :
                               as_uint(children[j].id) = id => j <= i
        IN  GlyphOfChar(children[last])]

\* xml_document::load_file: the result is false for a file whose content
\* is no well-formed document; such a content is the record of its text.
load_file(content) == "malformed" \notin DOMAIN content

\* Variant: the name of the root element is not looked at.
RejectedWithoutPagesOnly(doc) == doc.pages = <<>>

\* The two early returns on a parsed document: the root element is not
\* font, or it has no pages child.
RejectedDocument(doc) == doc.root # "font" \/ doc.pages = <<>>

\* The number of textures the constructor gets from the cache.
TexturesGot(doc) ==
    IF RejectedDocument(doc) THEN 0
    ELSE LET n == as_int((IF doc.common = <<>> THEN [pages |-> <<>>]
                          ELSE doc.common[1]).pages)
         IN  IF n <= Len(doc.pages[1]) THEN Max(n, 0) ELSE Len(doc.pages[1])

\* The sprite-font the constructor leaves for the document doc; images[i]
\* tells whether the i-th texture got from the cache holds an image.
LoadDocument(doc, images) ==
    IF RejectedDocument(doc) THEN SpriteFontDefault
    ELSE LET named == IF doc.info = <<>> THEN SpriteFontDefault
                      ELSE [SpriteFontDefault EXCEPT
                               !.face_ = doc.info[1].face,
                               !.size_ = stoi(doc.info[1].size)]
             common == IF doc.common = <<>> THEN [lineHeight |-> <<>>, pages |-> <<>>]
                       ELSE doc.common[1]
             n == as_int(common.pages)
             page_nodes == doc.pages[1]
             textures == [i \in 1..TexturesGot(doc) |->
                             TextureCacheGet(page_nodes[i].file, images[i])]
             headed == [named EXCEPT !.line_height_ = as_int(common.lineHeight),
                                     !.textures_ = textures]
         IN  IF n > Len(page_nodes) THEN headed
             ELSE [headed EXCEPT !.glyphs_ =
                      IF doc.chars = <<>> THEN <<>>
                      ELSE GlyphsOfChars(doc.chars[1].children)]

\* The constructor is left by an exception: std::stoi on a size attribute
\* that holds no number, or textures_.reserve of a negative count (converted
\* to size_t it exceeds max_size()).
LoadThrows(doc) ==
    /\ ~RejectedDocument(doc)
    /\ \/ doc.info # <<>> /\ stoi_throws(doc.info[1].size)
       \/ doc.common # <<>> /\ as_int(doc.common[1].pages) < 0

\* The error line of the loading constructor, if it writes one.
LoadError(doc) ==
    IF doc.root # "font" THEN {"root_node.name() != font"}
    ELSE IF doc.pages = <<>> THEN {"!pages_node"}
    ELSE IF as_int((IF doc.common = <<>> THEN [pages |-> <<>>] ELSE doc.common[1]).pages)
               > Len(doc.pages[1]) THEN {"!page_node"}
    ELSE {}

\* A sprite-font is constructed from the index file at path.
Load ==
    /\ pc = "saved"
    /\ IF files[path] = <<>> \/ ~load_file(files[path][1])
       THEN /\ loaded' = << SpriteFontDefault >>
            /\ log' = log \cup {<< "load", path.stem, path.ext, "!result" >>}
            /\ pc' = "loaded"
       ELSE IF LoadThrows(files[path][1])
       THEN /\ pc' = "threw"
            /\ UNCHANGED << loaded, log >>
       ELSE \E images \in [1..TexturesGot(files[path][1]) -> BOOLEAN] :
            /\ loaded' = << LoadDocument(files[path][1], images) >>
            /\ log' = log \cup { << "load", path.stem, path.ext, e >> :
                                   e \in LoadError(files[path][1]) }
            /\ pc' = "loaded"
    /\ UNCHANGED << call, returned, settings, nChars, size_metrics, face_, face_err, pos,
                    failed, load_errors, rendered_glyphs_, rects_, pages, font,
                    path, files, pngs >>

----------------------------------------------------------------------------

BuildNext ==
    \/ FreeTypeFace_ctor
    \/ FirstChar
    \/ NullFaceDeref
    \/ SimpleGlyph
    \/ ContourGlyph
    \/ OutlinedGlyph
    \/ EnumerateDone
    \/ PackRound
    \/ PackRoundOutlined
    \/ PackDone
    \/ Finish

Next ==
    \/ FreeTypeFace_ctor
    \/ FirstChar
    \/ NullFaceDeref
    \/ SimpleGlyph
    \/ ContourGlyph
    \/ OutlinedGlyph
    \/ EnumerateDone
    \/ PackRound
    \/ PackRoundOutlined
    \/ PackDone
    \/ Finish
    \/ SaveBuilt
    \/ Load
    \/ SaveLoaded

\* A constructor followed by save, load and save of the loaded font.
Spec == Init /\ [][Next]_vars

\* A constructor alone.  The program is single-threaded and runs without
\* waiting for anything: a step that can be taken is taken.
FairBuild == Init /\ [][BuildNext]_vars /\ WF_vars(BuildNext)

----------------------------------------------------------------------------
(* Loading an index file that was not written by save *)

\* The path given to the loading constructor.
IndexPath == [stem |-> "out", ext |-> "fnt"]

\* char elements of hand-written index files.  A missing attribute is the
\* empty text.
HandChar(id, x, xoffset, page) ==
    [id |-> id, x |-> FormatInt(x), y |-> FormatInt(x + 1),
     width |-> FormatInt(3), height |-> FormatInt(4),
     xoffset |-> FormatInt(xoffset), yoffset |-> FormatInt(5),
     advance_x |-> FormatInt(6), page |-> page]

HandChildren ==
    LET A  == HandChar(FormatInt(65), 2, -1, FormatInt(0))
        A2 == HandChar(FormatInt(65), 7, 1, FormatInt(1))
        B  == HandChar(FormatInt(66), 12, 0, FormatInt(1))
        N  == HandChar(FormatInt(-3), 2, 0, <<>>)
    IN  { <<>>, << A >>, << A, B, A2 >>, << A2, A >>, << N >> }

HandPage(i) == [name |-> "page", id |-> FormatInt(i), file |-> PageFileName("out", i)]

\* The documents an index file may hold.
Documents ==
    [root : {"font", "fnt"},
     info : { <<>>, << [face |-> "Arial", size |-> FormatInt(12)] >>,
              << [face |-> "Arial", size |-> <<>>] >> },
     chars : { <<>> } \cup
             { << [count |-> FormatInt(Len(c)), children |-> c] >> : c \in HandChildren },
     common : { <<>>,
                << [lineHeight |-> FormatInt(24), pages |-> FormatInt(1)] >>,
                << [lineHeight |-> FormatInt(24), pages |-> FormatInt(2)] >>,
                << [lineHeight |-> << "x" >>, pages |-> FormatInt(0)] >>,
                << [lineHeight |-> FormatInt(24), pages |-> FormatInt(-1)] >> },
     pages : { <<>>, << <<>> >>, << << HandPage(0) >> >>,
               << << HandPage(1), HandPage(0) >> >> }]

\* What is at the path: nothing, a file that is no XML document, or a
\* document.
FileContents ==
    { <<>>, << [malformed |-> "<font><pages>"] >> } \cup { << d >> : d \in Documents }

\* No sprite-font was built; some file is at IndexPath.
LoadInit ==
    /\ settings = [kind |-> "Simple", texture_size |-> <<11, 9>>,
                   blur_radius |-> 0, thickness |-> 12]
    /\ nChars = 0
    /\ size_metrics \in { m \in SizeMetrics : m.ascender = 1216 }
    /\ pc = "saved"
    /\ face_ = "null"
    /\ face_err = "none"
    /\ pos = 0
    /\ failed = {}
    /\ load_errors = 0
    /\ log = {}
    /\ rendered_glyphs_ = <<>>
    /\ rects_ = <<>>
    /\ pages = <<>>
    /\ font = SpriteFontDefault
    /\ loaded = <<>>
    /\ path = IndexPath
    /\ \E content \in FileContents :
         files = [p \in Paths |-> IF p = IndexPath THEN content ELSE <<>>]
    /\ pngs = {}
    /\ call = <<>>
    /\ returned = <<>>

LoadNext ==
    \/ Load
    \/ SaveLoaded

\* The loading constructor on any file, then save of what it loaded.
LoadSpec == LoadInit /\ [][LoadNext]_vars

----------------------------------------------------------------------------
(* GlyphPacker::pack called again on the packer it has emptied *)

\* The second call, in the build with NDEBUG (the only one in which
\* assert(!packed), which names no declared variable, is compiled away and
\* the translation unit compiles): there is no packed_ member, both
\* asserts are empty, rects_ is empty, so the while loop is not entered
\* and the empty vector ret is returned.
PackAgain ==
    /\ pc = "packed"
    /\ settings.kind \in {"Simple", "Contour"}
    /\ call = <<>>
    /\ rects_ = <<>>
    /\ call' = [fn |-> "pack", texture_size |-> settings.texture_size]
    /\ returned' = << <<>> >>
    /\ UNCHANGED << buildVars, ioVars >>

MisuseNext ==
    \/ BuildNext
    \/ PackAgain

\* A build constructor in which pack is called once more after its return.
MisuseSpec == Init /\ [][MisuseNext]_vars

----------------------------------------------------------------------------
(* Functions called on their own *)

\* The greatest 26.6 value the rounding is specified for: 2^31 - 65.
MaxFixedPoint == 2147483583

\* The 26.6 values given to round_to_pixels: every value from -2.5 to 2.5
\* pixels, and the values within a pixel of the two ends of the range.  In
\* that range the pixel count fits i32 and no step of the function
\* overflows a 32-bit FT_Pos.
FixedPointValues ==
    (-160..160)
    \cup ((MaxFixedPoint - 64)..MaxFixedPoint)
    \cup ((-MaxFixedPoint)..(64 - MaxFixedPoint))

\* What a function does to the native handles it holds, in program order:
\* a handle is acquired by the engine call that creates it, when that call
\* succeeds; it is used by every call it is passed to or read through; it
\* is released by FT_Done_Face, FT_Done_Glyph, FT_Stroker_Done.
Acquire(h) == << [op |-> "acquire", h |-> h] >>
Use(h) == << [op |-> "use", h |-> h] >>
Release(h) == << [op |-> "release", h |-> h] >>

\* FreeTypeFace::done: releases the face if face_ is not null.
done(held) == IF held THEN Release("face") ELSE <<>>

\* The constructor of FreeTypeFace followed by its destructor.  err is the
\* step that fails.
FreeTypeFace_events(err) ==
    CASE err = "data_empty" -> done(FALSE)
      [] err = "new_face"   -> done(FALSE) \o done(FALSE)
      [] err = "charmap"    -> Acquire("face") \o Use("face") \o done(TRUE) \o done(FALSE)
      [] err = "pixel_size" -> Acquire("face") \o Use("face") \o Use("face") \o Use("face")
                               \o done(TRUE) \o done(FALSE)
      [] err = "none"       -> Acquire("face") \o Use("face") \o Use("face") \o Use("face")
                               \o done(TRUE)

\* render_glyph_contour.  The arguments say which engine calls succeed.
render_glyph_contour_events(get_glyph, stroker_new, to_bitmap) ==
    IF ~get_glyph THEN <<>>
    ELSE Acquire("glyph")
         \o Use("glyph")                                       \* glyph->library
         \o (IF stroker_new THEN Acquire("stroker") ELSE <<>>)
         \o Use("stroker")                                     \* FT_Stroker_Set
         \o Use("glyph") \o Use("stroker")                     \* FT_Glyph_Stroke
         \o Release("stroker")                                 \* FT_Stroker_Done
         \o Use("glyph")                                       \* FT_Glyph_To_Bitmap
         \o (IF ~to_bitmap THEN Release("glyph")
             ELSE Use("glyph") \o Release("glyph"))            \* to_image, FT_Done_Glyph

\* The handle part of render_glyph_outlined: the inner glyph, then the
\* inflated one.  No result of an engine call is looked at.
render_glyph_outlined_events(get_glyph, get_glyph2, stroker_new) ==
    (IF get_glyph THEN Acquire("glyph") ELSE <<>>)
    \o Use("glyph")                                            \* FT_Glyph_To_Bitmap
    \o Use("glyph")                                            \* bitmapGlyph->bitmap, left, top
    \o Release("glyph")                                        \* FT_Done_Glyph
    \o (IF get_glyph2 THEN Acquire("glyph") ELSE <<>>)
    \o Use("glyph")                                            \* glyph->library
    \o (IF stroker_new THEN Acquire("stroker") ELSE <<>>)
    \o Use("stroker")                                          \* FT_Stroker_Set
    \o Use("glyph") \o Use("stroker")                          \* FT_Glyph_StrokeBorder
    \o Release("stroker")                                      \* FT_Stroker_Done
    \o Use("glyph")                                            \* FT_Glyph_To_Bitmap
    \o Use("glyph")                                            \* bitmapGlyph->bitmap, left, top
    \o Release("glyph")                                        \* FT_Done_Glyph

\* Whether handle h is held after the events, or "bad" when one of them
\* used or released it while it was not held, or acquired it while held.
RECURSIVE Held(_, _, _)
Held(events, h, state) ==
    IF events = <<>> THEN state
    ELSE LET e == Head(events)
             next == IF e.h # h THEN state
                     ELSE CASE e.op = "acquire" -> IF state = "free" THEN "held" ELSE "bad"
                            [] e.op = "use"     -> IF state = "held" THEN "held" ELSE "bad"
                            [] e.op = "release" -> IF state = "held" THEN "free" ELSE "bad"
         IN  IF next = "bad" THEN "bad" ELSE Held(Tail(events), h, next)

Handles == {"face", "glyph", "stroker"}

\* A use or release of a handle that was not acquired reads an
\* uninitialized or stale pointer: the function may go on, or end there.
Outcomes(events) ==
    {events} \cup
    { SubSeq(events, 1, k) : k \in { j \in DOMAIN events :
          /\ \E h \in Handles : Held(SubSeq(events, 1, j), h, "free") = "bad"
          /\ \A h \in Handles : Held(SubSeq(events, 1, j - 1), h, "free") # "bad" } }

\* Rendered grayscale glyphs given to blur: blank and not, with offsets of
\* both signs.
BlurGlyphs ==
    { [RenderedGlyphDefault EXCEPT !.image = size, !.code_point = 65,
                                   !.offset = offset, !.advance_x = 7] :
        size \in {<<0, 0>>, <<1, 1>>, <<2, 1>>, <<3, 5>>},
        offset \in {<<0, 0>>, <<1, 16>>, <<-1, 3>>} }

\* The radii given to blur (the function asserts blur_radius >= 0).
BlurArguments == 0..2

\* A colour is a u32 0xAABBGGRR; it is held here as its four bytes, lowest
\* first, which is also the order of a pixel's bytes in a 4-component image.
get_r(color) == color[1]
get_g(color) == color[2]
get_b(color) == color[3]
get_a(color) == color[4]
to_rgba(r, g, b, a) == << r, g, b, a >>

\* Variant: the sums are scaled by a shift, that is by 256.
result_color_shifted(frontColor, backColor, mask) ==
    to_rgba((get_r(frontColor) * mask + get_r(backColor) * (255 - mask)) \div 256,
            (get_g(frontColor) * mask + get_g(backColor) * (255 - mask)) \div 256,
            (get_b(frontColor) * mask + get_b(backColor) * (255 - mask)) \div 256,
            (get_a(frontColor) * mask + get_a(backColor) * (255 - mask)) \div 256)

\* The body of the two loops of render_glyph_outlined: the colour written
\* over backColor where the inner glyph has the value mask.
result_color(frontColor, backColor, mask) ==
    LET result_r == get_r(frontColor) * mask + get_r(backColor) * (255 - mask)
        result_g == get_g(frontColor) * mask + get_g(backColor) * (255 - mask)
        result_b == get_b(frontColor) * mask + get_b(backColor) * (255 - mask)
        result_a == get_a(frontColor) * mask + get_a(backColor) * (255 - mask)
    IN  to_rgba(result_r \div 255, result_g \div 255, result_b \div 255, result_a \div 255)

\* An image with its pixels: a size and, for every <<x, y>> in it, the
\* pixel (a gray value or a colour).
Pixels(size) == (0..(size[1] - 1)) \X (0..(size[2] - 1))

\* for (y ...) for (x ...): the pixels of normalGlyph from <<x, y>> on, in
\* the order of the loops, written into image.
RECURSIVE Overlay(_, _, _, _, _, _)
Overlay(image, normalGlyph, frontColor, delta, x, y) ==
    IF y >= normalGlyph.size[2] THEN image
    ELSE IF x >= normalGlyph.size[1]
    THEN Overlay(image, normalGlyph, frontColor, delta, 0, y + 1)
    ELSE LET at == << x + delta[1], y + delta[2] >>
             backColor == image.px[at]
             mask == normalGlyph.px[<< x, y >>]
         IN  Overlay([image EXCEPT !.px[at] = result_color(frontColor, backColor, mask)],
                     normalGlyph, frontColor, delta, x + 1, y)

\* The end of render_glyph_outlined: image is the inflated glyph in the
\* outline colour; the inner glyph is laid over it unless the two colours
\* are the same.
Composite(image, normalGlyph, main_color, outline_color, delta) ==
    IF main_color # outline_color
    THEN Overlay(image, normalGlyph, main_color, delta, 0, 0)
    ELSE image

White == << 255, 255, 255, 255 >>
Black == << 0, 0, 0, 255 >>
Mixed == << 10, 200, 77, 128 >>

\* Values of a pixel of the inner glyph: the ends, their neighbours and
\* the middle.
Masks == {0, 1, 127, 128, 254, 255}

\* Inner glyphs: two pixels side by side.
NormalGlyphs ==
    { [size |-> <<2, 1>>, px |-> (<<0, 0>> :> m1) @@ (<<1, 0>> :> m2)] :
        m1 \in Masks, m2 \in Masks }

\* Inflated glyphs, 4 x 3, in the colour c: the alpha falls off with the
\* place of the pixel, or is full everywhere.
ColoredGlyphs(c) ==
    { [size |-> <<4, 3>>,
       px |-> [p \in Pixels(<<4, 3>>) |->
                 to_rgba(get_r(c), get_g(c), get_b(c),
                         IF fade THEN (p[1] * 60 + p[2] * 17) % 256 ELSE get_a(c))]] :
        fade \in BOOLEAN }

\* deltaX, deltaY: the inner glyph lies within the inflated one.
Deltas == { <<0, 0>>, <<1, 1>>, <<2, 2>> }

Calls ==
    { [fn |-> "round_to_pixels", value |-> v] : v \in FixedPointValues }
    \cup UNION { { [fn |-> "composite", image |-> image, normalGlyph |-> inner,
                    main_color |-> main, outline_color |-> outline, delta |-> d] :
                    image \in ColoredGlyphs(outline), inner \in NormalGlyphs,
                    main \in {White, Mixed}, d \in Deltas } :
                  outline \in {Black, White} }
    \cup { [fn |-> "blur", glyph |-> g, blur_radius |-> r] :
            g \in BlurGlyphs, r \in BlurArguments }
    \cup { [fn |-> "FreeTypeFace", err |-> e] : e \in FaceErrors }
    \cup { [fn |-> "render_glyph_contour", get_glyph |-> g, stroker_new |-> st,
            to_bitmap |-> b] : g \in BOOLEAN, st \in BOOLEAN, b \in BOOLEAN }
    \cup { [fn |-> "render_glyph_outlined", get_glyph |-> g, get_glyph2 |-> g2,
            stroker_new |-> st] : g \in BOOLEAN, g2 \in BOOLEAN, st \in BOOLEAN }

\* No constructor runs; one function is about to be called.
UnitInit ==
    /\ settings = [kind |-> "Simple", texture_size |-> <<11, 9>>,
                   blur_radius |-> 0, thickness |-> 12]
    /\ nChars = 0
    /\ size_metrics \in { m \in SizeMetrics : m.ascender = 1216 }
    /\ pc = "unit"
    /\ face_ = "null"
    /\ face_err = "none"
    /\ pos = 0
    /\ failed = {}
    /\ load_errors = 0
    /\ log = {}
    /\ rendered_glyphs_ = <<>>
    /\ rects_ = <<>>
    /\ pages = <<>>
    /\ font = SpriteFontDefault
    /\ loaded = <<>>
    /\ path = [stem |-> "out", ext |-> ""]
    /\ files = [p \in Paths |-> <<>>]
    /\ pngs = {}
    /\ call \in Calls
    /\ returned = <<>>

Call_round_to_pixels ==
    /\ call.fn = "round_to_pixels"
    /\ returned = <<>>
    /\ returned' = << round_to_pixels(call.value) >>
    /\ UNCHANGED << buildVars, ioVars, call >>

Call_blur ==
    /\ call.fn = "blur"
    /\ returned = <<>>
    /\ returned' = << blur(call.glyph, call.blur_radius) >>
    /\ UNCHANGED << buildVars, ioVars, call >>

Call_composite ==
    /\ call.fn = "composite"
    /\ returned = <<>>
    /\ returned' = << Composite(call.image, call.normalGlyph, call.main_color,
                                call.outline_color, call.delta) >>
    /\ UNCHANGED << buildVars, ioVars, call >>

\* A FreeTypeFace is constructed and destroyed.
Call_FreeTypeFace ==
    /\ call.fn = "FreeTypeFace"
    /\ returned = <<>>
    /\ \E events \in Outcomes(FreeTypeFace_events(call.err)) : returned' = << events >>
    /\ UNCHANGED << buildVars, ioVars, call >>

Call_render_glyph_contour ==
    /\ call.fn = "render_glyph_contour"
    /\ returned = <<>>
    /\ \E events \in Outcomes(render_glyph_contour_events(
                             call.get_glyph, call.stroker_new, call.to_bitmap)) :
         returned' = << events >>
    /\ UNCHANGED << buildVars, ioVars, call >>

Call_render_glyph_outlined ==
    /\ call.fn = "render_glyph_outlined"
    /\ returned = <<>>
    /\ \E events \in Outcomes(render_glyph_outlined_events(
                             call.get_glyph, call.get_glyph2, call.stroker_new)) :
         returned' = << events >>
    /\ UNCHANGED << buildVars, ioVars, call >>

UnitNext ==
    \/ Call_round_to_pixels
    \/ Call_blur
    \/ Call_composite
    \/ Call_FreeTypeFace
    \/ Call_render_glyph_contour
    \/ Call_render_glyph_outlined

UnitSpec == UnitInit /\ [][UnitNext]_vars

----------------------------------------------------------------------------
(* Properties *)

\* The constructor of the built sprite-font has returned.
Built == pc \in {"built", "saved", "loaded", "resaved"}

\* The glyph's padded rectangle does not fit the page.
Oversize(g) == g.image[1] + 4 > W \/ g.image[2] + 4 > H

AllFit == \A i \in DOMAIN rendered_glyphs_ : ~Oversize(rendered_glyphs_[i])

\* How often the glyph with this id was pasted on a page.
PasteCount(id) ==
    Cardinality({ e \in UNION { {i} \X DOMAIN pages[i] : i \in DOMAIN pages } :
                    pages[e[1]][e[2]].id = id })

\* C1: after a build constructor has returned, every glyph of the map names
\* a page that has a texture, and its rect lies inside the W x H page.
C1_GlyphRectsInsidePages ==
    Built =>
        \A cp \in DOMAIN font.glyphs_ :
            LET g == font.glyphs_[cp]
            IN  /\ 0 <= g.page /\ g.page < Len(font.textures_)
                /\ g.rect.pos[1] >= 0 /\ g.rect.pos[2] >= 0
                /\ g.rect.pos[1] + g.rect.size[1] <= W
                /\ g.rect.pos[2] + g.rect.size[2] <= H

\* A built font of two pages whose second page holds a glyph with pixels.
C1_Witness ==
    /\ Built
    /\ Len(font.textures_) >= 2
    /\ \E cp \in DOMAIN font.glyphs_ :
           font.glyphs_[cp].page = 1 /\ font.glyphs_[cp].rect.size[1] > 0

\* C2: after a build, the rects of two glyphs of one page, each enlarged
\* by 2 pixels on all four sides, do not overlap.
C2_PaddedRectsDisjoint ==
    Built =>
        \A a, b \in DOMAIN font.glyphs_ :
            LET g == font.glyphs_[a]
                h == font.glyphs_[b]
            IN  (a # b /\ g.page = h.page) =>
                    \/ g.rect.pos[1] + g.rect.size[1] + 2 <= h.rect.pos[1] - 2
                    \/ h.rect.pos[1] + h.rect.size[1] + 2 <= g.rect.pos[1] - 2
                    \/ g.rect.pos[2] + g.rect.size[2] + 2 <= h.rect.pos[2] - 2
                    \/ h.rect.pos[2] + h.rect.size[2] + 2 <= g.rect.pos[2] - 2

\* A built font with two glyphs with pixels on one page.
C2_Witness ==
    /\ Built
    /\ \E a, b \in DOMAIN font.glyphs_ :
           /\ a # b
           /\ font.glyphs_[a].page = font.glyphs_[b].page
           /\ font.glyphs_[a].rect.size[1] > 0
           /\ font.glyphs_[b].rect.size[1] > 0

\* C3: for every glyph the packer has placed, rect.size is the size of the
\* glyph's image, and rect.pos is the bin packer's position plus 2 on both
\* axes, which is where the image was pasted.
C3_RectIsImageAtPastePosition ==
    \A i \in DOMAIN pages : \A k \in DOMAIN pages[i] :
        LET e == pages[i][k]
            g == rendered_glyphs_[e.id + 1]
        IN  /\ g.rect.size = g.image
            /\ g.rect.pos = << e.at[1] + 2, e.at[2] + 2 >>
            /\ e.pos = g.rect.pos
            /\ e.size = g.image

\* A blurred glyph and a glyph placed away from the page's corner.
C3_Witness ==
    /\ pc = "packed"
    /\ settings.kind = "Outlined"
    /\ \E i \in DOMAIN pages : \E k \in DOMAIN pages[i] :
           pages[i][k].at # << 0, 0 >> /\ pages[i][k].size[1] > 0

\* C4: when every padded rectangle fits the page, the packing loop ends,
\* and at its end the working list is empty and every added glyph was
\* pasted exactly once, on the page its page field names.
C4_PackingTerminates ==
    /\ (pc = "pack" /\ AllFit) ~> (pc = "packed")
    /\ [](pc = "packed" =>
            /\ rects_ = <<>>
            /\ \A n \in DOMAIN rendered_glyphs_ :
                   /\ PasteCount(n - 1) = 1
                   /\ \E k \in DOMAIN pages[rendered_glyphs_[n].page + 1] :
                          pages[rendered_glyphs_[n].page + 1][k].id = n - 1)

\* Three glyphs packed on more than one page.
C4_Witness ==
    /\ pc = "packed"
    /\ AllFit
    /\ Len(rendered_glyphs_) = 3
    /\ Len(pages) >= 2

\* C5: when some padded rectangle exceeds the page, the loop is never
\* left: that rectangle is in the working list in every round, every round
\* appends one page, and the number of pages reaches any limit set.
C5_OversizeNeverTerminates ==
    /\ []((\E i \in DOMAIN rendered_glyphs_ : Oversize(rendered_glyphs_[i])) =>
            /\ pc \in {"enumerate", "pack", "crashed"}
            /\ pc = "pack" =>
                   \A i \in DOMAIN rendered_glyphs_ :
                       Oversize(rendered_glyphs_[i]) =>
                           \E k \in DOMAIN rects_ : rects_[k].id = i - 1)
    /\ [][(pc = "pack" /\ pc' = "pack") => Len(pages') = Len(pages) + 1]_vars
    /\ (pc = "pack" /\ ~AllFit) ~> (Len(pages) = MaxPages)

\* The loop still running at the page limit, other glyphs placed.
C5_Witness ==
    /\ pc = "pack"
    /\ ~AllFit
    /\ Len(pages) = MaxPages
    /\ Len(rects_) = 1
    /\ Len(rendered_glyphs_) = 3

\* C6: a glyph the engine fails on is logged and skipped: the enumeration
\* goes on with the next code point, the build ends, and the map holds
\* every other glyph of the font.
C6_FailedGlyphIsSkipped ==
    /\ \A k \in failed : pos > k
    /\ failed # {} => pc # "crashed"
    /\ Built => DOMAIN font.glyphs_ = { CharCode(k) : k \in (1..nChars) \ failed }

\* C7: when the face cannot be set up the constructor returns and leaves
\* the sprite-font empty.
C7_FaceFailureLeavesEmptyFont ==
    face_err # "none" =>
        /\ pc # "crashed"
        /\ font = SpriteFontDefault

\* The documents written for the built font and for the loaded font.
Written(stem) == { p \in Paths : p.stem = stem /\ files[p] # <<>> }

\* C8: when the save of the built font succeeded, the font loaded from that
\* index has the same glyph map, line height, face and size and as many
\* textures; and the index saved from the loaded font has the same info,
\* common and chars sections.
C8_SaveLoadRoundTrip ==
    (loaded # <<>> /\ Written("out") # {}) =>
        /\ loaded[1].glyphs_ = font.glyphs_
        /\ loaded[1].line_height_ = font.line_height_
        /\ loaded[1].face_ = font.face_
        /\ loaded[1].size_ = font.size_
        /\ Len(loaded[1].textures_) = Len(font.textures_)
        /\ \A p \in Written("out"), q \in Written("copy") :
               /\ files[q][1].info = files[p][1].info
               /\ files[q][1].common = files[p][1].common
               /\ files[q][1].chars = files[p][1].chars

\* A font of two pages, one glyph with a negative offset, saved again.
C8_Witness ==
    /\ pc = "resaved"
    /\ Written("out") # {} /\ Written("copy") # {}
    /\ Len(font.textures_) >= 2
    /\ \E cp \in DOMAIN font.glyphs_ : font.glyphs_[cp].offset[1] < 0

\* The sprite-font a written document was saved from.
SavedFrom(p) == IF p.stem = "out" THEN font ELSE loaded[1]

\* C9: in every index written, the char elements are in strictly increasing
\* order of id, there is one per glyph of the map, count is the number of
\* glyphs, and no iteration order of the map gives another document.
C9_CharsSortedById ==
    \A p \in Paths :
        files[p] # <<>> =>
            LET chars == files[p][1].chars[1]
                keys == DOMAIN SavedFrom(p).glyphs_
            IN  /\ \A i, j \in DOMAIN chars.children :
                       i < j => as_uint(chars.children[i].id) < as_uint(chars.children[j].id)
                /\ Len(chars.children) = Cardinality(keys)
                /\ { as_uint(chars.children[i].id) : i \in DOMAIN chars.children } = keys
                /\ as_int(chars.count) = Cardinality(keys)
                /\ \A o \in IterationOrders(keys) :
                       SaveDocument(SavedFrom(p), p.stem, o) = files[p][1]

\* An index with three char elements.
C9_Witness ==
    \E p \in Paths :
        /\ files[p] # <<>>
        /\ Len(files[p][1].chars[1].children) = 3

\* C10: a call of save on a font one of whose textures has no image, or
\* with an extension that is neither empty nor "fnt", logs a line and
\* writes no file: no page image and no index.
C10_RejectedSaveWritesNothing ==
    [][ ( /\ pc' # pc
          /\ pc' \in {"saved", "resaved"}
          /\ \/ path'.ext \notin {"", "fnt"}
             \/ LET sf == IF pc' = "saved" THEN font ELSE loaded[1]
                IN  \E i \in DOMAIN sf.textures_ : ~sf.textures_[i].image )
        => (files' = files /\ pngs' = pngs /\ log' # log) ]_vars

\* save was called with "fnt" on a font whose first texture has an image
\* and whose second has none, and nothing was written for it.
C10_Witness ==
    /\ pc = "resaved"
    /\ path.ext = "fnt"
    /\ Len(loaded[1].textures_) >= 2
    /\ loaded[1].textures_[1].image
    /\ ~loaded[1].textures_[2].image
    /\ Written("copy") = {}
    /\ \A f \in pngs : f.stem # "copy"

\* The file the loading constructor was given.
IndexFile == files[IndexPath]

\* The loading constructor has ended, by return or by exception.
LoadEnded == pc \in {"loaded", "resaved", "threw"}

\* C11: when the index file is missing or is no XML document, or its root
\* element is not font, or it has no pages child, the constructor returns
\* with an error line logged and the sprite-font as constructed by
\* default: no glyphs, no textures (so no texture was asked of the
\* cache, every lookup being pushed), line height 0.
C11_UnusableIndexLeavesEmpty ==
    (/\ LoadEnded
     /\ \/ IndexFile = <<>>
        \/ ~load_file(IndexFile[1])
        \/ IndexFile[1].root # "font"
        \/ IndexFile[1].pages = <<>>)
    => /\ pc # "threw"
       /\ loaded # <<>>
       /\ loaded[1].glyphs_ = <<>>
       /\ loaded[1].textures_ = <<>>
       /\ loaded[1].line_height_ = 0
       /\ \E line \in log : line[1] = "load"

\* Loaded: a document whose root is not font and which has everything
\* else, a page, a line height and char elements.
C11_Witness ==
    /\ pc = "loaded"
    /\ IndexFile # <<>>
    /\ load_file(IndexFile[1])
    /\ IndexFile[1].root = "fnt"
    /\ IndexFile[1].pages # <<>> /\ IndexFile[1].pages[1] # <<>>
    /\ IndexFile[1].common # <<>> /\ as_int(IndexFile[1].common[1].pages) = 1
    /\ IndexFile[1].chars # <<>> /\ IndexFile[1].chars[1].children # <<>>

\* The attributes of common as the constructor reads them; a missing
\* element gives missing attributes.
CommonOf(doc) ==
    IF doc.common = <<>> THEN [lineHeight |-> <<>>, pages |-> <<>>] ELSE doc.common[1]

\* The char children of the document.
CharsOf(doc) == IF doc.chars = <<>> THEN <<>> ELSE doc.chars[1].children

\* The constructor read the document to its end.
LoadedWhole ==
    /\ pc \in {"loaded", "resaved"}
    /\ IndexFile # <<>>
    /\ load_file(IndexFile[1])
    /\ IndexFile[1].root = "font"
    /\ IndexFile[1].pages # <<>>
    /\ as_int(CommonOf(IndexFile[1]).pages) <= Len(IndexFile[1].pages[1])

\* C12: after a load that read the document to its end, the line height
\* is common.lineHeight, there are common.pages textures, the i-th got for
\* the file of the i-th page child, the keys of the glyph map are the ids
\* of the char children, and each glyph has the attributes of the last
\* char child with its id.
C12_LoadedFontIsTheDocument ==
    LoadedWhole =>
        LET doc == IndexFile[1]
            sf == loaded[1]
            chars == CharsOf(doc)
        IN  /\ sf.line_height_ = as_int(CommonOf(doc).lineHeight)
            /\ Len(sf.textures_) = as_int(CommonOf(doc).pages)
            /\ \A i \in DOMAIN sf.textures_ : sf.textures_[i].src = doc.pages[1][i].file
            /\ DOMAIN sf.glyphs_ = { as_uint(chars[i].id) : i \in DOMAIN chars }
            /\ \A i \in DOMAIN chars :
                   (\A j \in DOMAIN chars : j > i => as_uint(chars[j].id) # as_uint(chars[i].id))
                   => LET g == sf.glyphs_[as_uint(chars[i].id)]
                      IN  /\ g.rect.pos = << as_int(chars[i].x), as_int(chars[i].y) >>
                          /\ g.rect.size = << as_int(chars[i].width), as_int(chars[i].height) >>
                          /\ g.offset = << as_int(chars[i].xoffset), as_int(chars[i].yoffset) >>
                          /\ g.advance_x = as_int(chars[i].advance_x)
                          /\ g.page = as_int(chars[i].page)

\* Loaded: two pages and three char elements, two of them with one id.
C12_Witness ==
    /\ LoadedWhole
    /\ Len(loaded[1].textures_) = 2
    /\ Len(CharsOf(IndexFile[1])) = 3
    /\ Cardinality(DOMAIN loaded[1].glyphs_) = 2
    /\ loaded[1].line_height_ = 24

\* The sprite-fonts that exist.
SpriteFonts ==
    (IF Built THEN {font} ELSE {}) \cup (IF loaded # <<>> THEN {loaded[1]} ELSE {})

\* C13: in every sprite-font, built or loaded, every glyph names a page
\* that exists.
C13_GlyphPagesExist ==
    \A sf \in SpriteFonts :
        \A cp \in DOMAIN sf.glyphs_ :
            0 <= sf.glyphs_[cp].page /\ sf.glyphs_[cp].page < Len(sf.textures_)

\* round_to_pixels has returned.
Rounded == pc = "unit" /\ call.fn = "round_to_pixels" /\ returned # <<>>

\* C14: for a 26.6 value v with |v| < 2^31 - 64, round_to_pixels(v) is
\* floor(v / 64), plus 1 when v mod 64 >= 32: the whole number of pixels
\* nearest to v / 64, the upper one when v is halfway, for negative
\* values too.
C14_RoundsToNearestPixel ==
    Rounded /\ -MaxFixedPoint <= call.value /\ call.value <= MaxFixedPoint =>
        LET v == call.value
            r == returned[1]
            \* v - 64 * r, computed within 32 bits
            above == (v - 64 * (r - 1)) - 64
        IN  /\ r = (v \div 64) + (IF v % 64 >= 32 THEN 1 ELSE 0)
            /\ -32 <= above
            /\ above < 32

\* Rounded: a negative value halfway between two pixels went up.
C14_Witness == Rounded /\ call.value = -96 /\ returned[1] = -1

\* C15: a second call of pack on the same packer is stopped by the
\* assertion at its start; it does not return.
C15_SecondPackIsStopped ==
    ~(pc \in {"packed", "built"} /\ call # <<>> /\ call.fn = "pack" /\ returned # <<>>)

\* One of the functions that hold native handles has ended.
HandlesDone ==
    /\ pc = "unit"
    /\ call.fn \in {"FreeTypeFace", "render_glyph_contour", "render_glyph_outlined"}
    /\ returned # <<>>

\* C16: on every path of FreeTypeFace, render_glyph_contour and
\* render_glyph_outlined, each handle that was acquired is released once
\* and is not held at the end, and no handle is used or released while it
\* is not held.
C16_HandlesReleasedOnce ==
    HandlesDone => \A h \in Handles : Held(returned[1], h, "free") = "free"

\* blur has returned.
Blurred == pc = "unit" /\ call.fn = "blur" /\ returned # <<>>

\* C17: blur(r) on a grayscale glyph leaves image and offset as they are
\* when r = 0; when r > 0 the image is wider and higher by 2 * r and both
\* offsets are smaller by r; code_point and advance_x stay in both cases.
C17_BlurGrowsFrame ==
    Blurred =>
        LET g == call.glyph
            b == returned[1]
            r == call.blur_radius
        IN  /\ r = 0 => b.image = g.image /\ b.offset = g.offset
            /\ r > 0 => /\ b.image[1] = g.image[1] + 2 * r
                        /\ b.image[2] = g.image[2] + 2 * r
                        /\ b.offset[1] = g.offset[1] - r
                        /\ b.offset[2] = g.offset[2] - r
            /\ b.code_point = g.code_point
            /\ b.advance_x = g.advance_x

\* Blurred with radius 2: a 2 x 1 image became 6 x 5.
C17_Witness ==
    /\ Blurred
    /\ call.blur_radius = 2
    /\ call.glyph.image = <<2, 1>>
    /\ returned[1].image = <<6, 5>>
    /\ call.glyph.offset = <<-1, 3>>
    /\ returned[1].offset = <<-3, 1>>

\* The glyph the Simple constructor makes of code point cp when the engine
\* leaves m in the glyph slot.
SimpleGlyphOf(cp, m) == blur(RenderedGlyphFromSlot(cp, m), settings.blur_radius)

\* What the engine left in the slot for a glyph of the built font: the
\* bitmaps of the slots differ, so the glyph's size tells.
SlotsOf(cp) ==
    { m \in Slots : font.glyphs_[cp].rect.size = SimpleGlyphOf(cp, m).image }

\* C18: a Contour build with thickness t has the line height of the Simple
\* build of the same font plus t, and every glyph has the advance_x the
\* Simple build gives its code point plus t (compared in tenths of a
\* pixel, the unit of settings.thickness).
C18_ContourWidenedByThickness ==
    Built /\ settings.kind = "Contour" =>
        /\ font.line_height_ * 10 = LineHeight("Simple") * 10 + settings.thickness
        /\ \A cp \in DOMAIN font.glyphs_ : \A m \in SlotsOf(cp) :
               font.glyphs_[cp].advance_x * 10
                   = SimpleGlyphOf(cp, m).advance_x * 10 + settings.thickness

\* The inner glyph has been laid over the inflated one.
Composited == pc = "unit" /\ call.fn = "composite" /\ returned # <<>>

\* The pixel of the inner glyph that lies over pixel p of the image, if any.
Footprint(p) ==
    { q \in Pixels(call.normalGlyph.size) :
        p = << q[1] + call.delta[1], q[2] + call.delta[2] >> }

\* C19: with main_color # outline_color, the pixel under the inner pixel
\* of value m becomes, in each of its four channels,
\* (m * main + (255 - m) * back) / 255 in whole numbers: main_color when
\* m = 255, what it was when m = 0, always within 0..255; a pixel outside
\* the inner glyph's footprint stays; with main_color = outline_color
\* every pixel stays.
C19_InnerGlyphOverOutline ==
    Composited =>
        LET back == call.image
            out == returned[1]
        IN  /\ out.size = back.size
            /\ \A p \in Pixels(back.size) :
                   /\ \A ch \in 1..4 : out.px[p][ch] \in 0..255
                   /\ call.main_color = call.outline_color => out.px[p] = back.px[p]
                   /\ Footprint(p) = {} => out.px[p] = back.px[p]
                   /\ call.main_color # call.outline_color =>
                          \A q \in Footprint(p) :
                              LET m == call.normalGlyph.px[q]
                              IN  /\ \A ch \in 1..4 :
                                         out.px[p][ch] =
                                             (m * call.main_color[ch]
                                              + (255 - m) * back.px[p][ch]) \div 255
                                  /\ m = 255 => out.px[p] = call.main_color
                                  /\ m = 0 => out.px[p] = back.px[p]

\* Composited: a half-covered and a fully covered pixel were written one
\* pixel in from the corner of a faded outline.
C19_Witness ==
    /\ Composited
    /\ call.main_color = Mixed
    /\ call.outline_color = Black
    /\ call.delta = <<1, 1>>
    /\ call.normalGlyph.px[<<0, 0>>] = 128
    /\ call.normalGlyph.px[<<1, 0>>] = 255
    /\ call.image.px[<<1, 1>>] = << 0, 0, 0, 77 >>
    /\ returned[1].px[<<1, 1>>] = << 5, 100, 38, 102 >>
    /\ returned[1].px[<<2, 1>>] = Mixed
    /\ returned[1].px[<<3, 1>>] = call.image.px[<<3, 1>>]

\* The constructor is between two rounds of the packing loop, or past it.
Packing == pc \in {"pack", "packed", "built", "saved", "loaded", "resaved"}

\* The ids in the working list.
RemainingIds == { rects_[k].id : k \in DOMAIN rects_ }

\* The ids of the glyphs pasted on some page.
PlacedIds == { id \in 0..(Len(rendered_glyphs_) - 1) : PasteCount(id) > 0 }

\* C20: between the rounds of the packing loop the ids in the working list
\* and the ids of the placed glyphs are disjoint and together are all of
\* 0..n-1; no rectangle of the list is marked packed or is there twice; no
\* glyph was pasted twice; every rectangle has the padded size of the glyph
\* its id names, and every placed glyph the size of its own image.
C20_RemainingAndPlacedPartition ==
    Packing =>
        /\ RemainingIds \cap PlacedIds = {}
        /\ RemainingIds \cup PlacedIds = 0..(Len(rendered_glyphs_) - 1)
        /\ Cardinality(RemainingIds) = Len(rects_)
        /\ \A k \in DOMAIN rects_ :
               /\ ~rects_[k].was_packed
               /\ rects_[k].w = rendered_glyphs_[rects_[k].id + 1].image[1] + 2 * padding
               /\ rects_[k].h = rendered_glyphs_[rects_[k].id + 1].image[2] + 2 * padding
        /\ \A id \in PlacedIds :
               /\ PasteCount(id) = 1
               /\ rendered_glyphs_[id + 1].rect.size = rendered_glyphs_[id + 1].image
               /\ \A i \in DOMAIN pages : \A j \in DOMAIN pages[i] :
                      pages[i][j].id = id =>
                          /\ pages[i][j].size = rendered_glyphs_[id + 1].image
                          /\ rendered_glyphs_[id + 1].page = i - 1

\* After the first round: the first and the last of three glyphs were
\* placed, the last one from the slot it had been moved into, and the
\* middle one is what remains.
C20_Witness ==
    /\ pc = "pack"
    /\ Len(rendered_glyphs_) = 3
    /\ Len(pages) = 1
    /\ Len(pages[1]) = 2
    /\ pages[1][1].id = 0
    /\ pages[1][2].id = 2
    /\ Len(rects_) = 1
    /\ rects_[1].id = 1

\* The page indices the glyphs carry.
PagesUsed == { rendered_glyphs_[i].page : i \in DOMAIN rendered_glyphs_ }

\* C21: when every padded rectangle fits the page, a glyph pasted in the
\* round that made the i-th page carries the index i - 1, the number of
\* pages pushed before that round; every pushed page holds a glyph; and
\* once the loop has ended the indices carried by the glyphs are exactly
\* 0..k-1 for the k pages returned, which is also the number of textures
\* and the set of pages named by the glyphs of the built font.
C21_PagesNumberedInOrder ==
    Packing /\ AllFit =>
        /\ \A i \in DOMAIN pages :
               /\ pages[i] # <<>>
               /\ \A j \in DOMAIN pages[i] :
                      rendered_glyphs_[pages[i][j].id + 1].page = i - 1
        /\ rects_ = <<>> => PagesUsed = 0..(Len(pages) - 1)
        /\ Built =>
               /\ Len(font.textures_) = Len(pages)
               /\ { font.glyphs_[cp].page : cp \in DOMAIN font.glyphs_ }
                      = 0..(Len(font.textures_) - 1)

\* A built font of three glyphs that all fit: two on the first page, one
\* on the second.
C21_Witness ==
    /\ Built
    /\ AllFit
    /\ Len(rendered_glyphs_) = 3
    /\ Len(pages) = 2
    /\ Len(pages[1]) = 2
    /\ Len(pages[2]) = 1
    /\ Len(font.textures_) = 2

\* The constructor has ended on an index file that was parsed and has a
\* font root with a pages element.
LoadedPastPages ==
    /\ LoadEnded
    /\ IndexFile # <<>>
    /\ load_file(IndexFile[1])
    /\ ~RejectedDocument(IndexFile[1])

\* C22: if common.pages is larger than the number of children of pages,
\* the constructor ends at the first missing page with an empty glyph
\* map, keeping line_height, face, size and the textures got so far, fewer
\* than common.pages; if common.pages is smaller than the number of page
\* children, the textures are those of the first common.pages children
\* and the glyphs are loaded.
C22_PageCountMismatch ==
    LoadedPastPages =>
        LET doc == IndexFile[1]
            n == as_int(CommonOf(doc).pages)
            page_nodes == doc.pages[1]
            chars == CharsOf(doc)
        IN  /\ n > Len(page_nodes) =>
                   /\ pc # "threw"
                   /\ loaded # <<>>
                   /\ loaded[1].glyphs_ = <<>>
                   /\ loaded[1].line_height_ = as_int(CommonOf(doc).lineHeight)
                   /\ doc.info # <<>> => /\ loaded[1].face_ = doc.info[1].face
                                         /\ loaded[1].size_ = as_int(doc.info[1].size)
                   /\ Len(loaded[1].textures_) = Len(page_nodes)
                   /\ Len(loaded[1].textures_) < n
                   /\ \A i \in DOMAIN loaded[1].textures_ :
                          loaded[1].textures_[i].src = page_nodes[i].file
            /\ n < Len(page_nodes) =>
                   /\ pc # "threw"
                   /\ loaded # <<>>
                   /\ Len(loaded[1].textures_) = n
                   /\ \A i \in DOMAIN loaded[1].textures_ :
                          loaded[1].textures_[i].src = page_nodes[i].file
                   /\ DOMAIN loaded[1].glyphs_
                          = { as_uint(chars[i].id) : i \in DOMAIN chars }

====
